---- MODULE Spec2Model ----
(***************************************************************************)
(* Model of malert_financials.py: the registry loader (load_doc_list,      *)
(* load_corp_list), the document fetcher (get_document), the corporate     *)
(* filing resolver (get_documents_by_corp_num) and the request handler     *)
(* (main).                                                                 *)
(*                                                                         *)
(* Text is modelled as tuples of one-character strings, a Python dict as   *)
(* the sequence of its items in insertion order, a pandas column by its    *)
(* inferred dtype and its values, an HTTP response by its status and body. *)
(***************************************************************************)
EXTENDS Integers, Sequences, FiniteSets, TLC

VARIABLES
    cacheDoc,        \* cache/documents_list_2024-11.csv: NoFile or its raw rows
    cacheCorp,       \* cache/basic_info.csv: NoFile or its raw rows
    doc_list,        \* main: doc_list; resolver: documents_list
    corp_list,       \* main: corp_list
    corp_number,     \* main: the selectbox value (None or a corporate number)
    button,          \* main: whether st.button returns True in this run
    mpc,             \* position of main
    rendered,        \* the UI elements main has emitted, in order
    corp_num,        \* resolver: corp_num argument
    rpc,             \* position of get_documents_by_corp_num
    corp_record,     \* resolver: positions (in documents_list) of the selected rows
    pos,             \* resolver: next element of corp_record to iterate
    docs,            \* resolver: the docs dict
    docID,           \* get_document called on its own: docID argument
    hpc,             \* position of a function called on its own
    calls,           \* every requests.get issued, in order
    result           \* outcome of the function under study

vars == <<cacheDoc, cacheCorp, doc_list, corp_list, corp_number, button, mpc,
          rendered, corp_num, rpc, corp_record, pos, docs, docID, hpc, calls,
          result>>

(***************************************************************************)
(* Bounds                                                                  *)
(***************************************************************************)
MaxEntries == 2      \* entries of a ZIP archive
MaxRows == 3         \* rows of a document index handed to the resolver
MaxFileRows == 2     \* rows of a cache file read by the loader
MaxMainRows == 2     \* rows of the cache file read by main

(***************************************************************************)
(* Generic helpers                                                         *)
(***************************************************************************)
SeqsUpTo(S, n) == UNION {[1..k -> S] : k \in 0..n}

None == <<>>          \* the selectbox value when nothing is selected
NoDoc == ""
\* a cache file: whether os.path.exists holds for it, and its data rows
NoFile == [exists |-> FALSE, rows |-> <<>>]
File(rows) == [exists |-> TRUE, rows |-> rows]

Raise(e) == [kind |-> "raise", err |-> e]
Return(v) == [kind |-> "return", val |-> v]
NoResult == [kind |-> "none"]

(***************************************************************************)
(* Python str: lower(), endswith()                                         *)
(***************************************************************************)
LowerChar(ch) ==
    CASE ch = "A" -> "a"
      [] ch = "B" -> "b"
      [] ch = "C" -> "c"
      [] ch = "S" -> "s"
      [] ch = "V" -> "v"
      [] OTHER -> ch

lower(s) == [k \in 1..Len(s) |-> LowerChar(s[k])]

endswith(s, suffix) ==
    /\ Len(s) >= Len(suffix)
    /\ SubSeq(s, Len(s) - Len(suffix) + 1, Len(s)) = suffix

(***************************************************************************)
(* Python dict: items in insertion order; assigning to an existing key     *)
(* replaces the value and keeps the key's position.                        *)
(***************************************************************************)
Keys(d) == [k \in 1..Len(d) |-> d[k].key]

KeySet(d) == {d[k].key : k \in 1..Len(d)}

DictSetKeepFirst(d, key, val) ==
    IF key \in KeySet(d) THEN d ELSE Append(d, [key |-> key, val |-> val])

DictSet(d, key, val) ==
    IF key \in KeySet(d)
    THEN [k \in 1..Len(d) |-> IF d[k].key = key THEN [key |-> key, val |-> val] ELSE d[k]]
    ELSE Append(d, [key |-> key, val |-> val])

(***************************************************************************)
(* The remote API and the archives it serves                               *)
(***************************************************************************)
DocIDs == {"S100AAAA", "S100BBBB"}

EntryNames == {
    <<"a", ".", "c", "s", "v">>,
    <<"B", ".", "C", "S", "V">>,
    <<"c", ".", "C", "s", "v">>,
    <<"r", ".", "t", "x", "t">>,
    <<".", "c", "s", "v">>,
    <<"c", "s", "v">>,
    <<"a", ".", "c", "s", "v", ".", "b">>,
    <<"a", "c", "s", "v">> }

\* an entry's bytes: UTF-16 tab-separated text, or bytes the parser rejects
EntryData == {"utf16-tsv", "garbage"}

Entry == [name : EntryNames, data : EntryData]

ZipBody(entries) == [kind |-> "zip", entries |-> entries, text |-> ""]
TextBody(text) == [kind |-> "text", entries |-> <<>>, text |-> text]

Statuses == {200, 201, 404, 500}

Bodies == {ZipBody(es) : es \in SeqsUpTo(Entry, MaxEntries)}
              \cup {TextBody("Not Found"), TextBody("")}

Responses == [status : Statuses, body : Bodies]

\* the responses the remote API gives while the resolver runs
SampleResponses == {
    [status |-> 200, body |-> ZipBody(<<[name |-> <<"a", ".", "c", "s", "v">>, data |-> "utf16-tsv"],
                                        [name |-> <<"r", ".", "t", "x", "t">>, data |-> "garbage"]>>)],
    [status |-> 200, body |-> ZipBody(<<[name |-> <<"B", ".", "C", "S", "V">>, data |-> "utf16-tsv"]>>)],
    [status |-> 404, body |-> TextBody("Not Found")],
    [status |-> 200, body |-> TextBody("")] }

(***************************************************************************)
(* get_document                                                            *)
(***************************************************************************)
StatusFailsOnlyServerErrors(status_code) == status_code >= 500

StatusFails(status_code) == status_code # 200

IsCsvNameCaseSensitive(name) == endswith(name, <<".", "c", "s", "v">>)

IsCsvName(name) == endswith(lower(name), <<".", "c", "s", "v">>)

\* zf.open(name): the archive's directory maps a name to its last entry
ZipOpen(entries, name) ==
    entries[CHOOSE k \in 1..Len(entries) :
                /\ entries[k].name = name
                /\ \A j \in (k+1)..Len(entries) : entries[j].name # name].data

\* pd.read_csv(io.BytesIO(raw), encoding="utf-16", sep="\t")
ParseOK(raw) == raw = "utf16-tsv"
DataFrame(raw) == [table |-> raw]

RECURSIVE ExtractFrom(_, _, _)
ExtractFrom(entries, k, df_dict) ==
    IF k > Len(entries) THEN Return(df_dict)
    ELSE LET name == entries[k].name IN
         IF IsCsvName(name)
         THEN LET raw == ZipOpen(entries, name) IN
              IF ParseOK(raw)
              THEN ExtractFrom(entries, k + 1, DictSet(df_dict, name, DataFrame(raw)))
              ELSE Raise([type |-> "ParseError", name |-> name])
         ELSE ExtractFrom(entries, k + 1, df_dict)

get_document(doc_id, response) ==
    IF StatusFails(response.status)
    THEN Raise([type |-> "Exception", status |-> response.status, text |-> response.body])
    ELSE IF response.body.kind # "zip"
         THEN Raise([type |-> "BadZipFile"])
         ELSE ExtractFrom(response.body.entries, 1, <<>>)

\* one requests.get, as recorded in calls: the document asked for, the index
\* row the resolver was at (0 outside the resolver), the response received
\* and what get_document made of it
HttpGet(doc_id, row, response, out) ==
    [docID |-> doc_id, row |-> row, response |-> response, out |-> out]

(***************************************************************************)
(* pandas: read_csv, dropna, astype                                        *)
(***************************************************************************)
\* text cells that read_csv turns into NaN
NAValues == {"", "NA", "NaN", "null"}

\* a numeric-looking cell: fmt says how the number n is written in the file
\* ("int" 120, "float" 120.0, "exp" 120e0), "empty" is an empty field and
\* "text" a field that is not a number
EmptyCell == [fmt |-> "empty", n |-> 0]
IntCell(n) == [fmt |-> "int", n |-> n]
FloatCell(n) == [fmt |-> "float", n |-> n]
ExpCell(n) == [fmt |-> "exp", n |-> n]
BadCell == [fmt |-> "text", n |-> 0]

DigitChar(d) == <<"0", "1", "2", "3", "4", "5", "6", "7", "8", "9">>[d + 1]

RECURSIVE StrOfInt(_)
StrOfInt(n) ==
    IF n < 10 THEN <<DigitChar(n)>>
    ELSE StrOfInt(n \div 10) \o <<DigitChar(n % 10)>>

\* str() of an integral float64 below 1e16
StrOfFloat(n) == StrOfInt(n) \o <<".", "0">>

CellText(cell) ==
    CASE cell.fmt = "empty" -> <<>>
      [] cell.fmt = "int" -> StrOfInt(cell.n)
      [] cell.fmt = "float" -> StrOfFloat(cell.n)
      [] cell.fmt = "exp" -> StrOfInt(cell.n) \o <<"e", "0">>
      [] OTHER -> <<"x">>

\* dtype inference of read_csv for one column
ColumnDtype(cells) ==
    IF \A k \in 1..Len(cells) : cells[k].fmt = "empty" THEN
        IF Len(cells) = 0 THEN "object" ELSE "float64"
    ELSE IF \E k \in 1..Len(cells) : cells[k].fmt = "text" THEN "object"
    ELSE IF \A k \in 1..Len(cells) : cells[k].fmt = "int" THEN "int64"
    ELSE "float64"

NaN == [t |-> "nan", n |-> 0, text |-> <<>>]

ReadCell(dtype, cell) ==
    IF cell.fmt = "empty" THEN NaN
    ELSE IF dtype = "object" THEN [t |-> "str", n |-> cell.n, text |-> CellText(cell)]
    ELSE IF dtype = "int64" THEN [t |-> "int", n |-> cell.n, text |-> <<>>]
    ELSE [t |-> "float", n |-> cell.n, text |-> <<>>]

\* NaN as held in a column of strings
NaNText == "<NaN>"

ReadText(text) == IF text \in NAValues THEN NaNText ELSE text

\* pd.isna of one field of a row
IsNA(row, field) ==
    IF field \in {"JCN", "csvFlag"} THEN row[field].t = "nan"
    ELSE row[field] = NaNText

\* int(s) accepts only an integer literal
IntLiteral(v) == v.text = StrOfInt(v.n)

\* Series.astype(int), one element; integral floats below 2^53 convert exactly
AsTypeIntSkipped(v) == v

AsTypeInt(v) ==
    IF v.t = "str" /\ ~IntLiteral(v) THEN [t |-> "error", n |-> 0, text |-> v.text]
    ELSE [t |-> "int", n |-> v.n, text |-> <<>>]

\* Series.astype(str), one element
AsTypeStr(v) ==
    CASE v.t = "int" -> StrOfInt(v.n)
      [] v.t = "float" -> StrOfFloat(v.n)
      [] v.t = "str" -> v.text
      [] OTHER -> <<"n", "a", "n">>

Column(rows, field) == [k \in 1..Len(rows) |-> rows[k][field]]

\* pd.read_csv(filepath, index_col=0) of the document list
ReadDocCsv(raw) ==
    LET jcnType == ColumnDtype(Column(raw, "JCN"))
        flagType == ColumnDtype(Column(raw, "csvFlag"))
    IN [k \in 1..Len(raw) |->
           [idx |-> k,
            docID |-> ReadText(raw[k].docID),
            filerName |-> ReadText(raw[k].filerName),
            JCN |-> ReadCell(jcnType, raw[k].JCN),
            csvFlag |-> ReadCell(flagType, raw[k].csvFlag)]]

DropNA(df, subset) ==
    SelectSeq(df, LAMBDA row : \A f \in subset : ~IsNA(row, f))

load_doc_list(file) ==
    IF ~file.exists THEN Raise([type |-> "FileNotFoundError"])
    ELSE LET df == DropNA(ReadDocCsv(file.rows), {"docID", "filerName", "JCN"})
             ints == [k \in 1..Len(df) |-> AsTypeInt(df[k].JCN)]
         IN IF \E k \in 1..Len(df) : ints[k].t = "error"
            THEN Raise([type |-> "ValueError"])
            ELSE Return([k \in 1..Len(df) |->
                            [df[k] EXCEPT !.JCN = AsTypeStr(ints[k])]])

\* pd.read_csv(filepath, index_col=0, skiprows=1) of the corporate master
ReadCorpCsv(raw) ==
    LET jcnType == ColumnDtype(Column(raw, "JCN"))
    IN [k \in 1..Len(raw) |->
           [idx |-> k,
            name |-> ReadText(raw[k].name),
            listing |-> raw[k].listing,
            JCN |-> ReadCell(jcnType, raw[k].JCN)]]

load_corp_list(file) ==
    IF ~file.exists THEN Raise([type |-> "FileNotFoundError"])
    ELSE LET df == DropNA(ReadCorpCsv(file.rows), {"JCN", "name"})
             ints == [k \in 1..Len(df) |-> AsTypeInt(df[k].JCN)]
         IN IF \E k \in 1..Len(df) : ints[k].t = "error"
            THEN Raise([type |-> "ValueError"])
            ELSE Return([k \in 1..Len(df) |->
                            [df[k] EXCEPT !.JCN = AsTypeStr(ints[k])]])

\* the cache files with at most n rows over the given cells
DocFiles(docCells, nameCells, jcnCells, flagCells, n) ==
    {File(rows) : rows \in SeqsUpTo([docID : docCells, filerName : nameCells,
                                      JCN : jcnCells, csvFlag : flagCells], n)}

(***************************************************************************)
(* get_documents_by_corp_num                                               *)
(***************************************************************************)
KnownCorpUnchecked(corp, documents_list) == TRUE

\* corp_num in documents_list["JCN"].values
KnownCorp(corp, documents_list) ==
    \E k \in 1..Len(documents_list) : documents_list[k].JCN = corp

\* the positions from row `from` on whose JCN equals corp, ascending
RECURSIVE RowsOf(_, _, _)
RowsOf(corp, documents_list, from) ==
    IF from > Len(documents_list) THEN <<>>
    ELSE (IF documents_list[from].JCN = corp THEN <<from>> ELSE <<>>)
             \o RowsOf(corp, documents_list, from + 1)

Reverse(s) == [k \in 1..Len(s) |-> s[Len(s) + 1 - k]]

CorpRecordReversed(corp, documents_list) == Reverse(RowsOf(corp, documents_list, 1))

\* documents_list[documents_list["JCN"] == corp_num], as row positions
CorpRecord(corp, documents_list) == RowsOf(corp, documents_list, 1)

SkipRowIfFalsy(csv_flag) == csv_flag.t \in {"int", "float"} /\ csv_flag.n = 0

\* csv_flag != 1
SkipRow(csv_flag) == ~(csv_flag.t \in {"int", "float"} /\ csv_flag.n = 1)

AfterFetchKeepGoing(out) == "loop"

\* an exception of get_document leaves the loop and the function
AfterFetch(out) == IF out.kind = "raise" THEN "raised" ELSE "loop"

StoreFirst(d, doc_id, out) ==
    IF out.kind = "return" THEN DictSetKeepFirst(d, doc_id, out.val) ELSE d

\* docs[doc_id] = get_document(doc_id)
Store(d, doc_id, out) ==
    IF out.kind = "return" THEN DictSet(d, doc_id, out.val) ELSE d

mainVars == <<cacheDoc, cacheCorp, corp_list, corp_number, button, mpc, rendered>>
harnessVars == <<docID, hpc>>

ResolverEnter ==
    /\ rpc = "call"
    /\ IF ~KnownCorp(corp_num, doc_list)
       THEN /\ rpc' = "raised"
            /\ result' = Raise([type |-> "ValueError", corp |-> corp_num])
            /\ UNCHANGED <<corp_record, pos, docs>>
       ELSE /\ rpc' = "loop"
            /\ docs' = <<>>
            /\ corp_record' = CorpRecord(corp_num, doc_list)
            /\ pos' = 1
            /\ UNCHANGED result
    /\ UNCHANGED <<mainVars, harnessVars, doc_list, corp_num, calls>>

ResolverIter ==
    /\ rpc = "loop"
    /\ pos <= Len(corp_record)
    /\ LET at == corp_record[pos]
           row == doc_list[at]
       IN IF SkipRow(row.csvFlag)
          THEN /\ pos' = pos + 1
               /\ UNCHANGED <<rpc, docs, calls, result>>
          ELSE \E response \in SampleResponses :
                  LET out == get_document(row.docID, response) IN
                  /\ calls' = Append(calls, HttpGet(row.docID, at, response, out))
                  /\ docs' = Store(docs, row.docID, out)
                  /\ rpc' = AfterFetch(out)
                  /\ result' = IF rpc' = "raised" THEN out ELSE result
                  /\ pos' = pos + 1
    /\ UNCHANGED <<mainVars, harnessVars, doc_list, corp_num, corp_record>>

ResolverReturn ==
    /\ rpc = "loop"
    /\ pos > Len(corp_record)
    /\ rpc' = "returned"
    /\ result' = Return(docs)
    /\ UNCHANGED <<mainVars, harnessVars, doc_list, corp_num, corp_record, pos, docs, calls>>

(***************************************************************************)
(* main                                                                    *)
(***************************************************************************)
Emit(kind, arg) == [kind |-> kind, arg |-> arg]

\* {jcn: name for jcn, name in zip(df[jcnField], df[nameField])}
RECURSIVE ZipDict(_, _, _, _)
ZipDict(df, nameField, k, acc) ==
    IF k > Len(df) THEN acc
    ELSE ZipDict(df, nameField, k + 1, DictSet(acc, df[k].JCN, df[k][nameField]))

jcn_to_name_doc(documents) == ZipDict(documents, "filerName", 1, <<>>)

jcn_to_name(corps) == ZipDict(corps, "name", 1, <<>>)

InDocIndexUnchecked(corp, documents) == TRUE

\* corp_number in jcn_to_name_doc
InDocIndex(corp, documents) == corp \in KeySet(jcn_to_name_doc(documents))

\* the "basic information" section, lines 112-125
BasicInfo(corp, corps) ==
    LET corp_info == SelectSeq(corps, LAMBDA row : row.JCN = corp) IN
    <<Emit("header", "basic")>> \o
    (IF corp_info = <<>> THEN <<Emit("error", [text |-> "no basic info"])>>
     ELSE <<Emit(IF corp_info[1].listing = "listed" THEN "success" ELSE "warning", "listing"),
            Emit("write", corp_info[1].idx)>>)

\* the rendering loops, lines 137-141
RECURSIVE RenderFiles(_, _)
RenderFiles(df_dict, k) ==
    IF k > Len(df_dict) THEN <<>>
    ELSE <<Emit("write", df_dict[k].key), Emit("dataframe", df_dict[k].val)>>
             \o RenderFiles(df_dict, k + 1)

RECURSIVE RenderDocuments(_, _)
RenderDocuments(documents, k) ==
    IF k > Len(documents) THEN <<>>
    ELSE <<Emit("subheader", documents[k].key)>> \o RenderFiles(documents[k].val, 1)
             \o RenderDocuments(documents, k + 1)

CatchAllSilent(e) == <<>>

\* except Exception as e: st.error(...)
CatchAll(e) == <<Emit("error", [text |-> "error occurred", e |-> e])>>

resolverVars == <<corp_num, rpc, corp_record, pos, docs>>

\* lines 79-96: both caches are loaded; an exception here is not caught
MainLoad ==
    /\ mpc = "load"
    /\ LET d == load_doc_list(cacheDoc)
           c == load_corp_list(cacheCorp)
       IN IF d.kind = "raise"
          THEN /\ mpc' = "crashed"
               /\ result' = d
               /\ UNCHANGED <<doc_list, corp_list, rendered>>
          ELSE IF c.kind = "raise"
          THEN /\ mpc' = "crashed"
               /\ result' = c
               /\ doc_list' = d.val
               /\ UNCHANGED <<corp_list, rendered>>
          ELSE /\ mpc' = "select"
               /\ doc_list' = d.val
               /\ corp_list' = c.val
               /\ rendered' = <<Emit("title", "Malert Financials")>>
               /\ UNCHANGED result
    /\ UNCHANGED <<cacheDoc, cacheCorp, corp_number, button, resolverVars, harnessVars, calls>>

\* lines 98-133: the selection, the basic information, the index lookup
MainSelect ==
    /\ mpc = "select"
    /\ \E choice \in KeySet(jcn_to_name(corp_list)) \cup {None} :
          /\ corp_number' = choice
          /\ IF choice = None
             THEN /\ rendered' = Append(rendered, Emit("warning", "select"))
                  /\ mpc' = "done"
             ELSE IF ~InDocIndex(choice, doc_list)
             THEN /\ rendered' = rendered \o BasicInfo(choice, corp_list)
                                  \o <<Emit("header", "financial"),
                                       Emit("error", [text |-> "no financial info"]),
                                       Emit("info", "2024-11 only")>>
                  /\ mpc' = "done"
             ELSE /\ rendered' = rendered \o BasicInfo(choice, corp_list)
                                  \o <<Emit("header", "financial")>>
                  /\ mpc' = "button"
    /\ UNCHANGED <<cacheDoc, cacheCorp, doc_list, corp_list, button, resolverVars,
                   harnessVars, calls, result>>

\* lines 134-136: the fetch button; pressed, it calls the resolver
MainButton ==
    /\ mpc = "button"
    /\ \E pressed \in BOOLEAN :
          /\ button' = pressed
          /\ IF pressed
             THEN /\ mpc' = "resolving"
                  /\ rpc' = "call"
                  /\ corp_num' = corp_number
             ELSE /\ mpc' = "done"
                  /\ UNCHANGED <<rpc, corp_num>>
    /\ rendered' = Append(rendered, Emit("button", "fetch"))
    /\ UNCHANGED <<cacheDoc, cacheCorp, doc_list, corp_list, corp_number, corp_record,
                   pos, docs, harnessVars, calls, result>>

\* lines 137-141
MainRender ==
    /\ mpc = "resolving"
    /\ rpc = "returned"
    /\ rendered' = rendered \o RenderDocuments(result.val, 1)
    /\ mpc' = "done"
    /\ UNCHANGED <<cacheDoc, cacheCorp, doc_list, corp_list, corp_number, button,
                   resolverVars, harnessVars, calls, result>>

\* lines 142-143
MainCatch ==
    /\ mpc = "resolving"
    /\ rpc = "raised"
    /\ rendered' = rendered \o CatchAll(result.err)
    /\ mpc' = "done"
    /\ UNCHANGED <<cacheDoc, cacheCorp, doc_list, corp_list, corp_number, button,
                   resolverVars, harnessVars, calls, result>>

(***************************************************************************)
(* The functions called on their own                                       *)
(***************************************************************************)
LoadDocList ==
    /\ hpc = "load_doc_list"
    /\ result' = load_doc_list(cacheDoc)
    /\ doc_list' = IF result'.kind = "return" THEN result'.val ELSE doc_list
    /\ hpc' = "done"
    /\ UNCHANGED <<mainVars, resolverVars, docID, calls>>

FetchDocument ==
    /\ hpc = "get_document"
    /\ \E response \in Responses :
          LET out == get_document(docID, response) IN
          /\ calls' = Append(calls, HttpGet(docID, 0, response, out))
          /\ result' = out
    /\ hpc' = "done"
    /\ UNCHANGED <<mainVars, resolverVars, docID, doc_list>>

(***************************************************************************)
(* Inputs                                                                  *)
(***************************************************************************)
SampleJCN == <<7, 120, 35>>
JCN1 == SampleJCN[1]
JCN2 == SampleJCN[2]
JCN3 == SampleJCN[3]

LoadFiles ==
    DocFiles({"S100AAAA", ""}, {"Acme", "NA"},
             {EmptyCell, IntCell(JCN1), FloatCell(JCN1), IntCell(JCN2), FloatCell(JCN2),
              ExpCell(JCN2), BadCell},
             {EmptyCell, IntCell(1)}, MaxFileRows)

ResolverFiles ==
    DocFiles(DocIDs, {"Acme"}, {IntCell(JCN1), IntCell(JCN2)},
             {EmptyCell, IntCell(0), IntCell(1), IntCell(2), BadCell}, MaxRows)

CorpNums == {StrOfInt(JCN1), StrOfInt(JCN2), StrOfInt(JCN3)}

MainDocFiles ==
    DocFiles(DocIDs, {"Acme"}, {EmptyCell, IntCell(JCN1), FloatCell(JCN2)},
             {EmptyCell, IntCell(0), IntCell(1)}, MaxMainRows)

CorpRow(name, listing, jcn) == [name |-> name, listing |-> listing, JCN |-> jcn]

MainCorpFiles == {
    File(<<>>),
    File(<<CorpRow("Acme", "listed", IntCell(JCN1)), CorpRow("Bolt", "unlisted", IntCell(JCN3))>>),
    File(<<CorpRow("Core", "unlisted", IntCell(JCN2)), CorpRow("", "listed", IntCell(JCN3)),
           CorpRow("Acme", "listed", EmptyCell), CorpRow("Acme", "listed", FloatCell(JCN1))>>) }

(***************************************************************************)
(* Specifications                                                          *)
(***************************************************************************)
MainIdle ==
    /\ cacheCorp = NoFile
    /\ corp_list = <<>>
    /\ corp_number = None
    /\ button = FALSE
    /\ mpc = "idle"
    /\ rendered = <<>>

ResolverIdle ==
    /\ corp_num = None
    /\ rpc = "idle"
    /\ corp_record = <<>>
    /\ pos = 1
    /\ docs = <<>>

\* load_doc_list called on a cache file
InitLoad ==
    /\ cacheDoc \in LoadFiles \cup {NoFile}
    /\ doc_list = <<>>
    /\ MainIdle
    /\ ResolverIdle
    /\ docID = NoDoc
    /\ hpc = "load_doc_list"
    /\ calls = <<>>
    /\ result = NoResult

NextLoad == LoadDocList

SpecLoad == InitLoad /\ [][NextLoad]_vars

\* get_document called on a document identifier
InitFetch ==
    /\ cacheDoc = NoFile
    /\ doc_list = <<>>
    /\ MainIdle
    /\ ResolverIdle
    /\ docID \in DocIDs
    /\ hpc = "get_document"
    /\ calls = <<>>
    /\ result = NoResult

NextFetch == FetchDocument

SpecFetch == InitFetch /\ [][NextFetch]_vars

\* get_documents_by_corp_num called on a loaded document index
InitResolve ==
    /\ cacheDoc \in ResolverFiles
    /\ doc_list = load_doc_list(cacheDoc).val
    /\ MainIdle
    /\ corp_num \in CorpNums
    /\ rpc = "call"
    /\ corp_record = <<>>
    /\ pos = 1
    /\ docs = <<>>
    /\ docID = NoDoc
    /\ hpc = "idle"
    /\ calls = <<>>
    /\ result = NoResult

NextResolve ==
    \/ ResolverEnter
    \/ ResolverIter
    \/ ResolverReturn

SpecResolve == InitResolve /\ [][NextResolve]_vars

\* one run of main
Init ==
    /\ cacheDoc \in MainDocFiles \cup {NoFile}
    /\ cacheCorp \in MainCorpFiles \cup {NoFile}
    /\ doc_list = <<>>
    /\ corp_list = <<>>
    /\ corp_number = None
    /\ button = FALSE
    /\ mpc = "load"
    /\ rendered = <<>>
    /\ ResolverIdle
    /\ docID = NoDoc
    /\ hpc = "idle"
    /\ calls = <<>>
    /\ result = NoResult

Next ==
    \/ MainLoad
    \/ MainSelect
    \/ MainButton
    \/ ResolverEnter
    \/ ResolverIter
    \/ ResolverReturn
    \/ MainRender
    \/ MainCatch

Spec == Init /\ [][Next]_vars

(***************************************************************************)
(* Properties of get_documents_by_corp_num (checked under SpecResolve)     *)
(***************************************************************************)
\* the index has a row of the corporation
InIndex(corp) == \E k \in 1..Len(doc_list) : doc_list[k].JCN = corp

\* the tabular-content flag of the row is the number 1
FlagIsOne(k) == doc_list[k].csvFlag.t # "nan" /\ doc_list[k].csvFlag.t # "str"
                    /\ doc_list[k].csvFlag.n = 1

\* row k belongs to the corporation asked for and is flagged
Qualifying(k) == doc_list[k].JCN = corp_num /\ FlagIsOne(k)

QualifyingRows == {k \in 1..Len(doc_list) : Qualifying(k)}

CallRows == {calls[c].row : c \in 1..Len(calls)}

\* C1: for a corporateId that does not occur in the index's JCN column the
\* resolver fails with the unknown-corporation error, and no HTTP call has
\* been made when it fails.
C1_UnknownCorpFailsBeforeAnyCall ==
    (rpc # "call" /\ ~InIndex(corp_num)) =>
        /\ rpc = "raised"
        /\ result = Raise([type |-> "ValueError", corp |-> corp_num])
        /\ calls = <<>>

C1_Witness ==
    /\ rpc = "raised"
    /\ ~InIndex(corp_num)
    /\ \E k \in 1..Len(doc_list) : FlagIsOne(k)
    /\ calls = <<>>

\* C2: the fetcher is invoked with a docID only for an index row whose JCN
\* equals corporateId and whose csvFlag is exactly 1; rows with any other
\* flag and rows of other corporations cause no fetch and contribute no key
\* of the result.
C2_OnlyFlaggedRowsFetched ==
    /\ \A c \in 1..Len(calls) :
          /\ calls[c].row \in QualifyingRows
          /\ calls[c].docID = doc_list[calls[c].row].docID
    /\ \A k \in 1..Len(doc_list) : ~Qualifying(k) => k \notin CallRows
    /\ \A d \in KeySet(docs) : \E k \in QualifyingRows : doc_list[k].docID = d
    /\ rpc = "returned" =>
          \A d \in KeySet(result.val) : \E k \in QualifyingRows : doc_list[k].docID = d

C2_Witness ==
    /\ rpc = "returned"
    /\ Len(calls) = 1
    /\ \E k \in 1..Len(doc_list) : doc_list[k].csvFlag.t = "nan"
    /\ \E k \in 1..Len(doc_list) :
          /\ doc_list[k].JCN = corp_num
          /\ ~FlagIsOne(k)
          /\ doc_list[k].docID \notin KeySet(result.val)
    /\ \E k \in 1..Len(doc_list) : doc_list[k].JCN # corp_num /\ FlagIsOne(k)

\* C3: stop on first error: when the fetch for a qualifying row fails, the
\* resolver fails with that same failure, no later fetch is issued and no
\* mapping is returned, not even the bundles fetched before.
C3_StopOnFirstError ==
    \A c \in 1..Len(calls) :
        calls[c].out.kind = "raise" =>
            /\ c = Len(calls)
            /\ rpc = "raised"
            /\ result.kind = "raise"
            /\ result = calls[c].out

C3_Witness ==
    /\ rpc = "raised"
    /\ Len(calls) = 2
    /\ calls[1].out.kind = "return"
    /\ docs # <<>>
    /\ \E k \in QualifyingRows : k > calls[2].row

\* C6: when every fetch succeeds the fetches are issued one per qualifying
\* row in index order, the keys of the result are exactly the docIDs of the
\* qualifying rows in the order those rows were first met, and each key maps
\* to a bundle the fetcher returned for that docID.
FirstRow(d) == CHOOSE k \in QualifyingRows :
                  /\ doc_list[k].docID = d
                  /\ \A j \in QualifyingRows : doc_list[j].docID = d => k <= j

C6_ResultInIndexOrder ==
    rpc = "returned" =>
        /\ result.kind = "return"
        /\ CallRows = QualifyingRows
        /\ \A c \in 1..Len(calls) : \A e \in 1..Len(calls) :
              c < e => calls[c].row < calls[e].row
        /\ KeySet(result.val) = {doc_list[k].docID : k \in QualifyingRows}
        /\ \A i \in 1..Len(result.val) : \A j \in 1..Len(result.val) :
              i < j => FirstRow(result.val[i].key) < FirstRow(result.val[j].key)
        /\ \A i \in 1..Len(result.val) :
              \E c \in 1..Len(calls) :
                  /\ calls[c].docID = result.val[i].key
                  /\ calls[c].out = Return(result.val[i].val)

C6_Witness ==
    /\ rpc = "returned"
    /\ Len(result.val) = 2
    /\ Len(doc_list) = 3
    /\ \E k \in 1..Len(doc_list) : ~Qualifying(k)
    /\ result.val[1].val # result.val[2].val

\* C9: when every fetch succeeds the number of HTTP GETs equals the number
\* of qualifying rows, a repeated docID being fetched once per row; the
\* result holds one entry per distinct docID, whose value is the bundle of
\* the last fetch of that docID.
LastCall(d) == CHOOSE c \in 1..Len(calls) :
                  /\ calls[c].docID = d
                  /\ \A e \in 1..Len(calls) : calls[e].docID = d => e <= c

C9_OneGetPerRowLastWins ==
    rpc = "returned" =>
        /\ Len(calls) = Cardinality(QualifyingRows)
        /\ Len(result.val) = Cardinality({doc_list[k].docID : k \in QualifyingRows})
        /\ Len(result.val) <= Len(calls)
        /\ \A i \in 1..Len(result.val) :
              result.val[i].val = calls[LastCall(result.val[i].key)].out.val

C9_Witness ==
    /\ rpc = "returned"
    /\ Len(calls) = 2
    /\ Len(result.val) = 1
    /\ calls[1].docID = calls[2].docID
    /\ calls[1].out # calls[2].out

(***************************************************************************)
(* Properties of get_document (checked under SpecFetch)                    *)
(***************************************************************************)
\* the HTTP statuses that report success
SuccessStatus(status) == status \in 200..299

\* the name ends in ".csv", upper and lower case letters taken as equal
HasCsvSuffix(name) ==
    /\ Len(name) >= 4
    /\ name[Len(name) - 3] = "."
    /\ name[Len(name) - 2] \in {"c", "C"}
    /\ name[Len(name) - 1] \in {"s", "S"}
    /\ name[Len(name)] \in {"v", "V"}

CsvEntryNames(entries) ==
    {entries[k].name : k \in {j \in 1..Len(entries) : HasCsvSuffix(entries[j].name)}}

\* C4: answered with a non-success HTTP status, get_document fails with an
\* error carrying the status code and the response body, returns no mapping,
\* and exactly one HTTP GET has been issued (no retry).
C4_NonSuccessStatusFailsOnce ==
    (hpc = "done" /\ Len(calls) >= 1 /\ ~SuccessStatus(calls[1].response.status)) =>
        /\ result.kind = "raise"
        /\ result.err = [type |-> "Exception",
                         status |-> calls[1].response.status,
                         text |-> calls[1].response.body]
        /\ Len(calls) = 1
        /\ calls[1].docID = docID

C4_Witness ==
    /\ hpc = "done"
    /\ Len(calls) = 1
    /\ calls[1].response.status = 404
    /\ CsvEntryNames(calls[1].response.body.entries) # {}
    /\ result.kind = "raise"

\* C5: the keys of the mapping get_document returns are exactly the archive
\* entry names ending in ".csv" case-insensitively, each in its original
\* spelling; other entries are absent; an archive without such entries
\* yields the empty mapping, not an error.
C5_KeysAreCsvEntryNames ==
    hpc = "done" =>
        LET response == calls[1].response
            names == CsvEntryNames(response.body.entries)
        IN /\ result.kind = "return" =>
                 /\ response.status = 200
                 /\ KeySet(result.val) = names
                 /\ Len(result.val) = Cardinality(names)
           /\ (response.status = 200 /\ response.body.kind = "zip" /\ names = {}) =>
                 result = Return(<<>>)

C5_Witness ==
    /\ hpc = "done"
    /\ result.kind = "return"
    /\ <<"B", ".", "C", "S", "V">> \in KeySet(result.val)
    /\ Len(result.val) = 1
    /\ Len(calls[1].response.body.entries) = 2

\* C5, the archive without ".csv" entries: the empty mapping is returned
C5_WitnessEmpty ==
    /\ hpc = "done"
    /\ result = Return(<<>>)
    /\ Len(calls[1].response.body.entries) = 2

(***************************************************************************)
(* Properties of load_doc_list (checked under SpecLoad)                    *)
(***************************************************************************)
Digits == {"0", "1", "2", "3", "4", "5", "6", "7", "8", "9"}

DigitValue(ch) == CHOOSE d \in 0..9 : DigitChar(d) = ch

RECURSIVE DecimalValue(_)
DecimalValue(str) ==
    IF Len(str) = 0 THEN 0
    ELSE 10 * DecimalValue(SubSeq(str, 1, Len(str) - 1)) + DigitValue(str[Len(str)])

\* the raw row has a document identifier, a filer name and a corporate number
Populated(raw) ==
    /\ raw.docID \notin NAValues
    /\ raw.filerName \notin NAValues
    /\ raw.JCN.fmt # "empty"

\* C7: every row of the table load_doc_list returns has docID, filerName and
\* JCN populated; the rows kept are exactly the rows of the file that have
\* all three; every JCN is the plain decimal-digit string of the source
\* number: only digits, no decimal point, no exponent, no digit lost.
C7_LoadedRowsPopulatedJcnDigits ==
    (hpc = "done" /\ result.kind = "return") =>
        LET df == result.val
            raw == cacheDoc.rows
        IN /\ doc_list = df
           /\ \A k \in 1..Len(df) :
                 /\ df[k].idx \in 1..Len(raw)
                 /\ Populated(raw[df[k].idx])
                 /\ df[k].docID = raw[df[k].idx].docID
                 /\ df[k].filerName = raw[df[k].idx].filerName
                 /\ df[k].JCN # <<>>
                 /\ \A c \in 1..Len(df[k].JCN) : df[k].JCN[c] \in Digits
                 /\ DecimalValue(df[k].JCN) = raw[df[k].idx].JCN.n
                 /\ (Len(df[k].JCN) > 1 => df[k].JCN[1] # "0")
           /\ {df[k].idx : k \in 1..Len(df)} = {j \in 1..Len(raw) : Populated(raw[j])}
           /\ \A i \in 1..Len(df) : \A j \in 1..Len(df) : i < j => df[i].idx < df[j].idx

C7_Witness ==
    /\ hpc = "done"
    /\ result.kind = "return"
    /\ Len(cacheDoc.rows) = 2
    /\ Len(result.val) = 1
    /\ cacheDoc.rows[result.val[1].idx].JCN.fmt = "int"
    /\ \E j \in 1..2 : cacheDoc.rows[j].JCN.fmt = "empty"
    /\ result.val[1].JCN = <<"1", "2", "0">>

(***************************************************************************)
(* Properties of main (checked under Spec)                                 *)
(***************************************************************************)
SomeFetchFailed == \E c \in 1..Len(calls) : calls[c].out.kind = "raise"

Rendered(kind) == {k \in 1..Len(rendered) : rendered[k].kind = kind}

\* C8: an error raised by the resolver or by a fetch is caught at the
\* request boundary, which renders one error message; in a request where a
\* fetch fails no document subheader and no table is rendered, not even for
\* the documents fetched before the failure.
C8_CatchAllNoPartialRendering ==
    /\ rpc = "raised" => mpc \in {"resolving", "done"}
    /\ (rpc = "raised" /\ mpc = "done") =>
          /\ Cardinality(Rendered("error")) = 1
          /\ rendered[Len(rendered)] =
                 [kind |-> "error", arg |-> [text |-> "error occurred", e |-> result.err]]
    /\ SomeFetchFailed =>
          /\ rpc = "raised"
          /\ Rendered("subheader") = {}
          /\ Rendered("dataframe") = {}

C8_Witness ==
    /\ mpc = "done"
    /\ rpc = "raised"
    /\ Len(calls) = 2
    /\ calls[1].out.kind = "return"
    /\ calls[1].out.val # <<>>
    /\ calls[2].out.kind = "raise"

\* C10: main invokes the resolver only for a selected corporate number that
\* is present in the loaded document index; a selection absent from the
\* index gets the not-found message and the run ends; so the resolver's
\* unknown-corporation error is never raised in main, and no HTTP call is
\* made for a corporation absent from the index or before the fetch action.
C10_ResolverOnlyForIndexedCorp ==
    /\ rpc # "idle" =>
          /\ button
          /\ corp_num = corp_number
          /\ corp_number # None
          /\ InIndex(corp_number)
    /\ rpc = "raised" => result.err.type # "ValueError"
    /\ calls # <<>> => (button /\ InIndex(corp_number))
    /\ (mpc \notin {"load", "select", "crashed"} /\ corp_number # None /\ ~InIndex(corp_number)) =>
          /\ mpc = "done"
          /\ rpc = "idle"
          /\ calls = <<>>
          /\ rendered[Len(rendered) - 1] =
                 [kind |-> "error", arg |-> [text |-> "no financial info"]]

C10_Witness ==
    /\ mpc = "done"
    /\ corp_number # None
    /\ ~InIndex(corp_number)
    /\ \E k \in 1..Len(doc_list) : FlagIsOne(k)
    /\ calls = <<>>

\* the resolver does get called from main
C10_WitnessCalled ==
    /\ mpc = "done"
    /\ rpc = "returned"
    /\ calls # <<>>

====
